---- MODULE Spec2Model ----
(***************************************************************************)
(* Model of the event service of tech-events-api                           *)
(* (app/services/event_service.py over a MongoDB collection, with the      *)
(* request validation of app/schemas/event.py).                            *)
(*                                                                         *)
(* An optional value (Python's `x | None`) is a sequence of length 0 or 1: *)
(* None is <<>> and Some(v) is <<v>>.  A request body is a function whose   *)
(* domain is the set of fields the client supplied.                        *)
(***************************************************************************)
EXTENDS Integers, Sequences, FiniteSets, TLC

VARIABLES
    events,     \* the "events" collection: documents in insertion order
    now,        \* the clock read by datetime.now(UTC)
    last,       \* the last request served one at a time, and its response
    deleted,    \* ObjectIds for which delete_event has returned True
    procs       \* the requests served concurrently: each one's position and locals

vars == <<events, now, last, deleted, procs>>

(***************************************************************************)
(* Bounds                                                                  *)
(***************************************************************************)
MaxEvents == 2

\* the values of the clock
Times == {0, 1}

None == <<>>
Some(v) == <<v>>

Titles == {"a", "b"}
Dates == {0, 1}
CreateCapacities == {1}
Descriptions == {"d"}
Locations == {"l"}
Organizers == {"o@x.io"}
TagSets == {{"python"}}
UpdateTitles == {"b"}
UpdateDates == {0}
UpdateCapacities == {2}

\* the parameters list is tried with
ListPages == {1, 2}
ListLimits == {1, 2}
ListFrom == {None, Some(1)}
ListTo == {None, Some(0)}
ListTags == {None, Some({"Python"})}
\* and a tag no stored event carries
RequestTags == ListTags \cup {Some({"ai"})}

(***************************************************************************)
(* bson.ObjectId: a well-formed id string is a fixed-length string of hex  *)
(* digits; here two binary digits.                                         *)
(***************************************************************************)
HexDigits == {"0", "1"}
ValidIdStrings == {<<x, y>> : x \in HexDigits, y \in HexDigits}
IdStrings == {<<"0", "1">>, <<"1", "0">>, <<"z", "z">>}

ObjectIdIsValidAlways(s) == TRUE

\* ObjectId.is_valid(event_id)
ObjectIdIsValid(s) == s \in ValidIdStrings

DigitValue(c) == IF c = "1" THEN 1 ELSE 0
DigitChar(n) == IF n = 1 THEN "1" ELSE "0"

ObjectIdReversed(s) == DigitValue(s[2]) * 2 + DigitValue(s[1])

\* ObjectId(event_id)
ObjectId(s) == DigitValue(s[1]) * 2 + DigitValue(s[2])

\* str(event["_id"])
Str(oid) == <<DigitChar(oid \div 2), DigitChar(oid % 2)>>

event_helper(event) == [event EXCEPT !._id = Str(event._id)]

(***************************************************************************)
(* The collection's operations                                             *)
(***************************************************************************)
\* A filter document is a sequence of conditions <<field, operator, value>>.
Holds(value, operator, operand) ==
    CASE operator = "$eq" -> value = operand
      [] operator = "$ne" -> value # operand
      [] operator = "$gte" -> value # None /\ value[1] >= operand[1]
      [] operator = "$lte" -> value # None /\ value[1] <= operand[1]
      [] operator = "$in" -> value # None /\ value[1] \cap operand # {}

Matches(doc, filter) ==
    \A k \in 1..Len(filter) : Holds(doc[filter[k][1]], filter[k][2], filter[k][3])

Matching(coll, filter) == {i \in 1..Len(coll) : Matches(coll[i], filter)}

First(idxs) == CHOOSE i \in idxs : \A j \in idxs : i <= j

\* find_one: the first matching document in natural order, or None
find_one(coll, filter) ==
    IF Matching(coll, filter) = {} THEN None
    ELSE Some(coll[First(Matching(coll, filter))])

\* count_documents
count_documents(coll, filter) == Cardinality(Matching(coll, filter))

\* insert_one
insert_one(coll, doc) == Append(coll, doc)

\* {"$set": update_data} applied to one document
SetFields(doc, update_data) ==
    [f \in DOMAIN doc |-> IF f \in DOMAIN update_data THEN update_data[f] ELSE doc[f]]

\* update_one: $set on the first matching document
update_one(coll, filter, update_data) ==
    IF Matching(coll, filter) = {} THEN coll
    ELSE [coll EXCEPT ![First(Matching(coll, filter))] =
              SetFields(coll[First(Matching(coll, filter))], update_data)]

\* result.modified_count of update_one: the documents the update changed
modified_count(coll, filter, update_data) ==
    IF update_one(coll, filter, update_data) = coll THEN 0 ELSE 1

(***************************************************************************)
(* Request bodies and their validation (pydantic schemas)                  *)
(***************************************************************************)
Candidates ==
    [title : {Some(t) : t \in Titles},
     description : {Some(t) : t \in Descriptions},
     date : {Some(d) : d \in Dates},
     location : {Some(t) : t \in Locations},
     organizer : {Some(t) : t \in Organizers},
     tags : {Some(t) : t \in TagSets},
     capacity : {Some(c) : c \in CreateCapacities}]

\* EmailStr: the syntactically valid addresses among the inputs
IsEmail(s) == s \in Organizers

\* date_not_in_past: raises when v < now
date_not_in_past(v, clock) == ~(v < clock)

\* EventCreate: every field required, min_length=1, gt=0, date_not_in_past
EventCreateValid(event, clock) ==
    /\ event.title # None /\ event.title # Some("")
    /\ event.description # None /\ event.description # Some("")
    /\ event.location # None /\ event.location # Some("")
    /\ event.organizer # None /\ IsEmail(event.organizer[1])
    /\ event.tags # None
    /\ event.capacity # None /\ event.capacity[1] > 0
    /\ event.date # None /\ date_not_in_past(event.date[1], clock)

UpdateFields ==
    {"title", "description", "date", "location", "organizer", "tags", "capacity",
     "is_active"}

\* per field of EventUpdate: not supplied (<<>>), or supplied (<<value>>)
Supplied ==
    [title : {<<>>} \cup {<<Some(t)>> : t \in UpdateTitles},
     description : {<<>>},
     date : {<<>>} \cup {<<Some(d)>> : d \in UpdateDates},
     location : {<<>>},
     organizer : {<<>>},
     tags : {<<>>},
     capacity : {<<>>} \cup {<<Some(c)>> : c \in UpdateCapacities},
     is_active : {<<>>}]

\* event_update.model_dump(exclude_unset=True)
model_dump_exclude_unset(s) ==
    [f \in {g \in UpdateFields : s[g] # <<>>} |-> s[f][1]]

Partials == {model_dump_exclude_unset(s) : s \in Supplied}

\* EventUpdate: a constraint applies to a supplied field that is not null
EventUpdateValid(p, clock) ==
    /\ "title" \in DOMAIN p => (p.title = None \/ p.title # Some(""))
    /\ "description" \in DOMAIN p => (p.description = None \/ p.description # Some(""))
    /\ "location" \in DOMAIN p => (p.location = None \/ p.location # Some(""))
    /\ "organizer" \in DOMAIN p => (p.organizer = None \/ IsEmail(p.organizer[1]))
    /\ "capacity" \in DOMAIN p => (p.capacity = None \/ p.capacity[1] > 0)
    /\ "date" \in DOMAIN p => (p.date = None \/ date_not_in_past(p.date[1], clock))

(***************************************************************************)
(* Responses                                                               *)
(***************************************************************************)
Response(op, id, body, st, entity) ==
    [op |-> op, id |-> id, body |-> body, status |-> st, entity |-> entity]

Procs == {"p1", "p2"}

\* a request in flight: the handler's position (the await it is at) and locals
Proc(pc, op, id, body, existing, status, entity) ==
    [pc |-> pc, op |-> op, id |-> id, body |-> body, existing |-> existing,
     status |-> status, entity |-> entity]

IdleProc == Proc("idle", "none", None, None, None, "none", None)

\* the handler has returned or raised
Done(op, status, entity) == Proc("done", op, None, None, None, status, entity)

Init ==
    /\ events = <<>>
    /\ now = 0
    /\ last = Response("none", None, None, "none", None)
    /\ deleted = {}
    /\ procs = [p \in Procs |-> IdleProc]

(***************************************************************************)
(* EventService.create_event behind POST /api/v1/events                    *)
(***************************************************************************)
CreateFilterAnyState(event) ==
    << <<"title", "$eq", event.title>>, <<"date", "$eq", event.date>> >>

CreateFilterInactive(event) ==
    << <<"title", "$eq", event.title>>, <<"date", "$eq", event.date>>,
       <<"is_active", "$eq", Some(FALSE)>> >>

\* {"title": event.title, "date": event.date, "is_active": True}
CreateFilter(event) ==
    << <<"title", "$eq", event.title>>, <<"date", "$eq", event.date>>,
       <<"is_active", "$eq", Some(TRUE)>> >>

\* event.model_dump() with is_active and the two timestamps; the store adds _id
NewDocument(event, oid, clock) ==
    [_id |-> oid,
     title |-> event.title,
     description |-> event.description,
     date |-> event.date,
     location |-> event.location,
     organizer |-> event.organizer,
     tags |-> event.tags,
     capacity |-> event.capacity,
     is_active |-> Some(TRUE),
     created_at |-> clock,
     updated_at |-> clock]

\* the ObjectId insert_one generates: distinct from every one generated before
NewObjectId(coll) == Len(coll) + 1

\* {"_id": ...}
ById(oid) == << <<"_id", "$eq", oid>> >>

CreateEvent(event) ==
    LET existing == find_one(events, CreateFilter(event))
        oid == NewObjectId(events)
        stored == insert_one(events, NewDocument(event, oid, now))
        created_event == find_one(stored, ById(oid))
    IN  /\ UNCHANGED <<now, deleted, procs>>
        /\ IF ~EventCreateValid(event, now)
           THEN /\ last' = Response("create", None, event, "ValidationError", None)
                /\ UNCHANGED events
           ELSE IF existing # None
           THEN /\ last' = Response("create", None, event, "Conflict", None)
                /\ UNCHANGED events
           ELSE /\ Len(events) < MaxEvents
                /\ events' = stored
                /\ last' = Response("create", None, event, "Created",
                                    Some(event_helper(created_event[1])))

(***************************************************************************)
(* EventService.get_event_by_id                                            *)
(***************************************************************************)
ActiveByIdAnyState(oid) == << <<"_id", "$eq", oid>> >>

\* {"_id": ObjectId(event_id), "is_active": True}
ActiveById(oid) == << <<"_id", "$eq", oid>>, <<"is_active", "$eq", Some(TRUE)>> >>

GetResult(coll, event_id) ==
    IF ~ObjectIdIsValid(event_id)
    THEN Response("get", event_id, None, "InvalidIdentifier", None)
    ELSE LET event == find_one(coll, ActiveById(ObjectId(event_id)))
         IN  IF event = None
             THEN Response("get", event_id, None, "NotFound", None)
             ELSE Response("get", event_id, None, "OK", Some(event_helper(event[1])))

GetEventById(event_id) ==
    /\ last' = GetResult(events, event_id)
    /\ UNCHANGED <<events, now, deleted, procs>>

(***************************************************************************)
(* EventService.get_events                                                 *)
(***************************************************************************)
Lower(tag) == IF tag = "Python" THEN "python" ELSE tag

\* the query built from the filters
ListFilter(date_from, date_to, tags) ==
    << <<"is_active", "$eq", Some(TRUE)>> >>
    \o (IF date_from # None THEN << <<"date", "$gte", date_from>> >> ELSE <<>>)
    \o (IF date_to # None THEN << <<"date", "$lte", date_to>> >> ELSE <<>>)
    \o (IF tags # None /\ tags[1] # {}
        THEN << <<"tags", "$in", {Lower(t) : t \in tags[1]}>> >> ELSE <<>>)

\* BSON order of the sort key: null sorts before every date
DateBefore(a, b) ==
    \/ a = None /\ b # None
    \/ a # None /\ b # None /\ a[1] < b[1]

RECURSIVE SortByDate(_, _)
\* sort("date", 1): the arrangements of the matching documents by ascending
\* date; the store fixes no order among documents of equal date
SortByDate(coll, idxs) ==
    IF idxs = {} THEN {<<>>}
    ELSE UNION {{<<coll[k]>> \o rest : rest \in SortByDate(coll, idxs \ {k})} :
                   k \in {i \in idxs :
                            \A j \in idxs : ~DateBefore(coll[j].date, coll[i].date)}}

Min(a, b) == IF a < b THEN a ELSE b

\* skip(skip).limit(limit) of a sorted cursor, each document through event_helper
Window(sorted, page, limit) ==
    LET skip == (page - 1) * limit
        window == SubSeq(sorted, skip + 1, Min(skip + limit, Len(sorted)))
    IN  [i \in 1..Len(window) |-> event_helper(window[i])]

get_events_PageTotal(coll, page, limit, date_from, date_to, tags) ==
    LET query == ListFilter(date_from, date_to, tags)
    IN  {[events |-> Window(sorted, page, limit),
          total |-> Len(Window(sorted, page, limit))] :
            sorted \in SortByDate(coll, Matching(coll, query))}

\* the (events, total) get_events can return
get_events(coll, page, limit, date_from, date_to, tags) ==
    LET query == ListFilter(date_from, date_to, tags)
        total == count_documents(coll, query)
    IN  {[events |-> Window(sorted, page, limit), total |-> total] :
            sorted \in SortByDate(coll, Matching(coll, query))}

(***************************************************************************)
(* EventService.update_event                                               *)
(***************************************************************************)
EffectiveTitleStored(update_data, existing_event) == existing_event.title

\* update_data.get("title", existing_event["title"])
EffectiveTitle(update_data, existing_event) ==
    IF "title" \in DOMAIN update_data THEN update_data.title ELSE existing_event.title

\* update_data.get("date", existing_event["date"])
EffectiveDate(update_data, existing_event) ==
    IF "date" \in DOMAIN update_data THEN update_data.date ELSE existing_event.date

DuplicateFilterSelf(title, date, oid) ==
    << <<"title", "$eq", title>>, <<"date", "$eq", date>>,
       <<"is_active", "$eq", Some(TRUE)>>, <<"_id", "$eq", oid>> >>

\* {"title": title, "date": date, "is_active": True, "_id": {"$ne": ObjectId(event_id)}}
DuplicateFilter(title, date, oid) ==
    << <<"title", "$eq", title>>, <<"date", "$eq", date>>,
       <<"is_active", "$eq", Some(TRUE)>>, <<"_id", "$ne", oid>> >>

\* "title" in update_data or "date" in update_data
TouchesKeyAlways(update_data) == TRUE

TouchesKey(update_data) ==
    "title" \in DOMAIN update_data \/ "date" \in DOMAIN update_data

NothingToUpdateNever(update_data) == FALSE

\* not update_data
NothingToUpdate(update_data) == DOMAIN update_data = {}

WithTimestampCreated(update_data, clock) ==
    [updated_at |-> clock, created_at |-> clock] @@ update_data

\* update_data["updated_at"] = datetime.now(UTC)
WithTimestamp(update_data, clock) == [updated_at |-> clock] @@ update_data

UpdateEvent(event_id, update_data) ==
    LET oid == ObjectId(event_id)
        existing_event == find_one(events, ActiveById(oid))
        duplicate ==
            find_one(events,
                     DuplicateFilter(EffectiveTitle(update_data, existing_event[1]),
                                     EffectiveDate(update_data, existing_event[1]),
                                     oid))
        stored == update_one(events, ById(oid), WithTimestamp(update_data, now))
        updated_event == find_one(stored, ById(oid))
    IN  /\ UNCHANGED <<now, deleted, procs>>
        /\ IF ~EventUpdateValid(update_data, now)
           THEN /\ last' = Response("update", event_id, update_data, "ValidationError", None)
                /\ UNCHANGED events
           ELSE IF ~ObjectIdIsValid(event_id)
           THEN /\ last' = Response("update", event_id, update_data, "InvalidIdentifier", None)
                /\ UNCHANGED events
           ELSE IF existing_event = None
           THEN /\ last' = Response("update", event_id, update_data, "NotFound", None)
                /\ UNCHANGED events
           ELSE IF NothingToUpdate(update_data)
           THEN /\ last' = Response("update", event_id, update_data, "OK",
                                    Some(event_helper(existing_event[1])))
                /\ UNCHANGED events
           ELSE IF TouchesKey(update_data) /\ duplicate # None
           THEN /\ last' = Response("update", event_id, update_data, "Conflict", None)
                /\ UNCHANGED events
           ELSE /\ events' = stored
                /\ last' = Response("update", event_id, update_data, "OK",
                                    Some(event_helper(updated_event[1])))

(***************************************************************************)
(* EventService.delete_event                                               *)
(***************************************************************************)
SoftDeleteKeepsActive(clock) == [is_active |-> Some(TRUE), updated_at |-> clock]

\* {"$set": {"is_active": False, "updated_at": datetime.now(UTC)}}
SoftDelete(clock) == [is_active |-> Some(FALSE), updated_at |-> clock]

DeleteEvent(event_id) ==
    LET Q == ActiveById(ObjectId(event_id))
    IN  /\ UNCHANGED <<now, procs>>
        /\ IF ~ObjectIdIsValid(event_id)
           THEN /\ last' = Response("delete", event_id, None, "InvalidIdentifier", None)
                /\ UNCHANGED <<events, deleted>>
           ELSE /\ events' = update_one(events, Q, SoftDelete(now))
                /\ IF modified_count(events, Q, SoftDelete(now)) = 0
                   THEN /\ last' = Response("delete", event_id, None, "NotFound", None)
                        /\ UNCHANGED deleted
                   ELSE /\ last' = Response("delete", event_id, None, "NoContent", None)
                        /\ deleted' = deleted \cup {ObjectId(event_id)}

(***************************************************************************)
(* Time passes between requests                                            *)
(***************************************************************************)
Tick ==
    /\ now + 1 \in Times
    /\ now' = now + 1
    /\ UNCHANGED <<events, last, deleted, procs>>

Next ==
    \/ \E event \in Candidates : CreateEvent(event)
    \/ \E event_id \in IdStrings : GetEventById(event_id)
    \/ \E event_id \in IdStrings, update_data \in Partials : UpdateEvent(event_id, update_data)
    \/ \E event_id \in IdStrings : DeleteEvent(event_id)
    \/ Tick

Spec == Init /\ [][Next]_vars

(***************************************************************************)
(* Concurrent requests: a handler gives way at each await, so each store   *)
(* call is one step and the calls of different requests interleave.       *)
(***************************************************************************)
ConcCandidates == {event \in Candidates : event.title = Some("a") /\ event.date = Some(0)}

ConcIdStrings == IdStrings

ConcSupplied ==
    [title : {<<>>} \cup {<<Some(t)>> : t \in UpdateTitles},
     description : {<<>>},
     date : {<<>>},
     location : {<<>>},
     organizer : {<<>>},
     tags : {<<>>},
     capacity : {<<>>} \cup {<<Some(c)>> : c \in UpdateCapacities},
     is_active : {<<>>, <<Some(TRUE)>>}]

\* the partials with at most one field supplied
ConcPartials ==
    {p \in {model_dump_exclude_unset(s) : s \in ConcSupplied} : Cardinality(DOMAIN p) <= 1}

Ready(p) == procs[p].pc \in {"idle", "done"}

Inserting == {q \in Procs : procs[q].pc = "create_insert"}

\* create_event up to its first find_one
CreateFind(p, event) ==
    /\ Ready(p)
    /\ UNCHANGED <<events, now, last, deleted>>
    /\ IF ~EventCreateValid(event, now)
       THEN procs' = [procs EXCEPT ![p] = Done("create", "ValidationError", None)]
       ELSE IF find_one(events, CreateFilter(event)) # None
       THEN procs' = [procs EXCEPT ![p] = Done("create", "Conflict", None)]
       ELSE /\ Len(events) + Cardinality(Inserting) < MaxEvents
            /\ procs' = [procs EXCEPT ![p] =
                            Proc("create_insert", "create", None, event, None, "none", None)]

CreateInsertChecked(p) ==
    /\ procs[p].pc = "create_insert"
    /\ UNCHANGED <<now, last, deleted>>
    /\ IF find_one(events, CreateFilter(procs[p].body)) # None
       THEN /\ procs' = [procs EXCEPT ![p] = Done("create", "Conflict", None)]
            /\ UNCHANGED events
       ELSE /\ events' = insert_one(events,
                                    NewDocument(procs[p].body, NewObjectId(events), now))
            /\ procs' = [procs EXCEPT ![p] =
                            Proc("create_fetch", "create", Str(NewObjectId(events)),
                                 None, None, "none", None)]

\* create_event: the timestamps and insert_one
CreateInsert(p) ==
    /\ procs[p].pc = "create_insert"
    /\ UNCHANGED <<now, last, deleted>>
    /\ events' = insert_one(events, NewDocument(procs[p].body, NewObjectId(events), now))
    /\ procs' = [procs EXCEPT ![p] =
                    Proc("create_fetch", "create", Str(NewObjectId(events)),
                         None, None, "none", None)]

\* create_event: find_one of the inserted id, and the return
CreateFetch(p) ==
    /\ procs[p].pc = "create_fetch"
    /\ UNCHANGED <<events, now, last, deleted>>
    /\ procs' = [procs EXCEPT ![p] =
                    Done("create", "Created",
                         Some(event_helper(
                             find_one(events, ById(ObjectId(procs[p].id)))[1])))]

\* update_event up to its first find_one, and what follows without an await
UpdateFind(p, event_id, update_data) ==
    LET existing_event == find_one(events, ActiveById(ObjectId(event_id)))
    IN  /\ Ready(p)
        /\ UNCHANGED <<events, now, last, deleted>>
        /\ IF ~EventUpdateValid(update_data, now)
           THEN procs' = [procs EXCEPT ![p] = Done("update", "ValidationError", None)]
           ELSE IF ~ObjectIdIsValid(event_id)
           THEN procs' = [procs EXCEPT ![p] = Done("update", "InvalidIdentifier", None)]
           ELSE IF existing_event = None
           THEN procs' = [procs EXCEPT ![p] = Done("update", "NotFound", None)]
           ELSE IF NothingToUpdate(update_data)
           THEN procs' = [procs EXCEPT ![p] =
                             Done("update", "OK", Some(event_helper(existing_event[1])))]
           ELSE IF TouchesKey(update_data)
           THEN procs' = [procs EXCEPT ![p] =
                             Proc("update_check", "update", event_id, update_data,
                                  existing_event, "none", None)]
           ELSE procs' = [procs EXCEPT ![p] =
                             Proc("update_write", "update", event_id, update_data,
                                  None, "none", None)]

\* update_event: the find_one of a duplicate
UpdateCheck(p) ==
    LET update_data == procs[p].body
        existing_event == procs[p].existing
        duplicate ==
            find_one(events,
                     DuplicateFilter(EffectiveTitle(update_data, existing_event[1]),
                                     EffectiveDate(update_data, existing_event[1]),
                                     ObjectId(procs[p].id)))
    IN  /\ procs[p].pc = "update_check"
        /\ UNCHANGED <<events, now, last, deleted>>
        /\ IF duplicate # None
           THEN procs' = [procs EXCEPT ![p] = Done("update", "Conflict", None)]
           ELSE procs' = [procs EXCEPT ![p] =
                             Proc("update_write", "update", procs[p].id, update_data,
                                  None, "none", None)]

\* update_event: the timestamp and update_one
UpdateWrite(p) ==
    /\ procs[p].pc = "update_write"
    /\ UNCHANGED <<now, last, deleted>>
    /\ events' = update_one(events, ById(ObjectId(procs[p].id)),
                            WithTimestamp(procs[p].body, now))
    /\ procs' = [procs EXCEPT ![p] =
                    Proc("update_fetch", "update", procs[p].id, None, None, "none", None)]

\* update_event: find_one of the updated document, and the return
UpdateFetch(p) ==
    /\ procs[p].pc = "update_fetch"
    /\ UNCHANGED <<events, now, last, deleted>>
    /\ procs' = [procs EXCEPT ![p] =
                    Done("update", "OK",
                         Some(event_helper(
                             find_one(events, ById(ObjectId(procs[p].id)))[1])))]

\* a delete that has returned or raised; the request's id is kept with its outcome
DoneDelete(event_id, status) == Proc("done", "delete", event_id, None, None, status, None)

DeleteUpdateUnconditional(p, event_id) ==
    LET Q == ById(ObjectId(event_id))
    IN  /\ Ready(p)
        /\ UNCHANGED <<now, last>>
        /\ IF ~ObjectIdIsValid(event_id)
           THEN /\ procs' = [procs EXCEPT ![p] = DoneDelete(event_id, "InvalidIdentifier")]
                /\ UNCHANGED <<events, deleted>>
           ELSE /\ events' = update_one(events, Q, SoftDelete(now))
                /\ IF modified_count(events, Q, SoftDelete(now)) = 0
                   THEN /\ procs' = [procs EXCEPT ![p] = DoneDelete(event_id, "NotFound")]
                        /\ UNCHANGED deleted
                   ELSE /\ procs' = [procs EXCEPT ![p] = DoneDelete(event_id, "NoContent")]
                        /\ deleted' = deleted \cup {ObjectId(event_id)}

\* delete_event: one conditional update_one
DeleteUpdate(p, event_id) ==
    LET Q == ActiveById(ObjectId(event_id))
    IN  /\ Ready(p)
        /\ UNCHANGED <<now, last>>
        /\ IF ~ObjectIdIsValid(event_id)
           THEN /\ procs' = [procs EXCEPT ![p] = DoneDelete(event_id, "InvalidIdentifier")]
                /\ UNCHANGED <<events, deleted>>
           ELSE /\ events' = update_one(events, Q, SoftDelete(now))
                /\ IF modified_count(events, Q, SoftDelete(now)) = 0
                   THEN /\ procs' = [procs EXCEPT ![p] = DoneDelete(event_id, "NotFound")]
                        /\ UNCHANGED deleted
                   ELSE /\ procs' = [procs EXCEPT ![p] = DoneDelete(event_id, "NoContent")]
                        /\ deleted' = deleted \cup {ObjectId(event_id)}

NextConc ==
    \/ \E p \in Procs, event \in ConcCandidates : CreateFind(p, event)
    \/ \E p \in Procs : CreateInsert(p)
    \/ \E p \in Procs : CreateFetch(p)
    \/ \E p \in Procs, event_id \in ConcIdStrings, update_data \in ConcPartials :
           UpdateFind(p, event_id, update_data)
    \/ \E p \in Procs : UpdateCheck(p)
    \/ \E p \in Procs : UpdateWrite(p)
    \/ \E p \in Procs : UpdateFetch(p)
    \/ \E p \in Procs, event_id \in ConcIdStrings : DeleteUpdate(p, event_id)

SpecConc == Init /\ [][NextConc]_vars

(***************************************************************************)
(* Lists among creates and deletes served one at a time                    *)
(***************************************************************************)
ListRequest(page, limit, date_from, date_to, tags) ==
    [page |-> page, limit |-> limit, date_from |-> date_from, date_to |-> date_to,
     tags |-> tags]

\* GET /api/v1/events: get_events and the EventListResponse
GetEvents(page, limit, date_from, date_to, tags) ==
    /\ \E result \in get_events(events, page, limit, date_from, date_to, tags) :
           last' = Response("list", None,
                            ListRequest(page, limit, date_from, date_to, tags),
                            "OK", Some(result))
    /\ UNCHANGED <<events, now, deleted, procs>>

NextList ==
    \/ \E event \in Candidates : CreateEvent(event)
    \/ \E event_id \in IdStrings : DeleteEvent(event_id)
    \/ \E page \in ListPages, limit \in ListLimits, date_from \in ListFrom,
          date_to \in ListTo, tags \in RequestTags :
           GetEvents(page, limit, date_from, date_to, tags)

SpecList == Init /\ [][NextList]_vars

(***************************************************************************)
(* Updates whose partial carries a field as a value, as null or as a value *)
(* the schema rejects, among creates and deletes served one at a time      *)
(***************************************************************************)
PartialCandidates ==
    {event \in Candidates : event.title = Some("a") /\ event.date = Some(0)}

\* per field: not supplied, null, a value the constraint rejects, a valid value
AnySupplied ==
    [title : {<<>>, <<None>>, <<Some("")>>} \cup {<<Some(t)>> : t \in UpdateTitles},
     description : {<<>>},
     date : {<<>>},
     location : {<<>>},
     organizer : {<<>>},
     tags : {<<>>},
     capacity : {<<>>, <<None>>, <<Some(0)>>} \cup {<<Some(c)>> : c \in UpdateCapacities},
     is_active : {<<>>, <<None>>, <<Some(TRUE)>>, <<Some(FALSE)>>}]

\* the partials with at most one field supplied
AnyPartials ==
    {p \in {model_dump_exclude_unset(s) : s \in AnySupplied} : Cardinality(DOMAIN p) <= 1}

NextPartial ==
    \/ \E event \in PartialCandidates : CreateEvent(event)
    \/ \E event_id \in IdStrings, update_data \in AnyPartials :
           UpdateEvent(event_id, update_data)
    \/ \E event_id \in IdStrings : DeleteEvent(event_id)
    \/ Tick

SpecPartial == Init /\ [][NextPartial]_vars

(***************************************************************************)
(* Concurrent deletes, among creates, as time passes                       *)
(***************************************************************************)
NextRace ==
    \/ \E p \in Procs, event \in ConcCandidates : CreateFind(p, event)
    \/ \E p \in Procs : CreateInsert(p)
    \/ \E p \in Procs : CreateFetch(p)
    \/ \E p \in Procs, event_id \in ConcIdStrings : DeleteUpdate(p, event_id)
    \/ Tick

SpecRace == Init /\ [][NextRace]_vars

(***************************************************************************)
(* Vocabulary of the properties, stated on the stored documents            *)
(***************************************************************************)
Docs == {events[i] : i \in 1..Len(events)}

IsActive(doc) == doc.is_active = Some(TRUE)

ActiveDocs == {doc \in Docs : IsActive(doc)}

SameKey(d1, d2) == d1.title = d2.title /\ d1.date = d2.date

WellFormed(event_id) == event_id \in ValidIdStrings

KeyFields == {"title", "date"}

\* C1: served one at a time, create, update and delete never leave two active
\* events with the same (title, date).
C1_ActiveKeysUnique ==
    \A d1 \in ActiveDocs, d2 \in ActiveDocs : d1._id # d2._id => ~SameKey(d1, d2)

C1_Witness ==
    /\ Cardinality(ActiveDocs) = 2
    /\ last.op = "update"
    /\ last.status = "OK"
    /\ DOMAIN last.body \cap KeyFields # {}

\* C3: once delete(id) has succeeded, get_by_id(id) answers NotFound, no list
\* contains the event, and the store still holds its record with is_active false.
C3_DeletedStaysHidden ==
    /\ \A oid \in deleted :
           /\ GetResult(events, Str(oid)).status = "NotFound"
           /\ \E doc \in Docs : doc._id = oid /\ doc.is_active = Some(FALSE)
    /\ deleted # {}
       => \A page \in ListPages, limit \in ListLimits, date_from \in ListFrom,
             date_to \in ListTo, tags \in ListTags :
             \A result \in get_events(events, page, limit, date_from, date_to, tags) :
                 \A i \in 1..Len(result.events), oid \in deleted :
                     result.events[i]._id # Str(oid)

C3_Witness ==
    /\ last.op = "get"
    /\ last.status = "NotFound"
    /\ WellFormed(last.id) /\ ObjectId(last.id) \in deleted
    /\ ActiveDocs # {}

ActiveWithId(event_id) == {doc \in ActiveDocs : Str(doc._id) = event_id}

\* C4: a create whose (title, date) is held by an active event answers Conflict
\* and leaves the store as it was.
C4_DuplicateCreateConflicts ==
    [][(/\ last'.op = "create"
        /\ CreateEvent(last'.body)
        /\ EventCreateValid(last'.body, now)
        /\ \E doc \in ActiveDocs : SameKey(doc, last'.body))
       => (last'.status = "Conflict" /\ events' = events)]_vars

C4_Witness ==
    /\ last.op = "create"
    /\ last.status = "Conflict"
    /\ \E doc \in ActiveDocs : SameKey(doc, last.body)

\* C7: an update with an empty partial on an active event returns the current
\* entity and writes nothing, updated_at included.
C7_EmptyUpdateWritesNothing ==
    [][(/\ last'.op = "update"
        /\ last'.body = <<>>
        /\ UpdateEvent(last'.id, last'.body)
        /\ ActiveWithId(last'.id) # {})
       => (/\ events' = events
           /\ last'.status = "OK"
           /\ \E doc \in ActiveWithId(last'.id) :
                  last'.entity = Some([doc EXCEPT !._id = last'.id]))]_vars

C7_Witness ==
    /\ last.op = "update"
    /\ last.body = <<>>
    /\ last.status = "OK"
    /\ \E doc \in ActiveWithId(last.id) : doc.updated_at < now

\* C5: delete of a well-formed id with no active record answers NotFound and
\* changes no stored record; so does a second delete of a deleted id.
C5_DeleteWithoutActiveRecord ==
    [][(/\ last'.op = "delete"
        /\ DeleteEvent(last'.id)
        /\ WellFormed(last'.id)
        /\ ActiveWithId(last'.id) = {})
       => (last'.status = "NotFound" /\ events' = events)]_vars

C5_Witness ==
    /\ last.op = "delete"
    /\ last.status = "NotFound"
    /\ WellFormed(last.id) /\ ObjectId(last.id) \in deleted
    /\ \E doc \in Docs : doc._id = ObjectId(last.id) /\ doc.updated_at < now

\* C6: get_by_id, update and delete answer InvalidIdentifier to a malformed id
\* and NotFound to a well-formed id with no active event, the store unchanged.
C6_IdentifierErrors ==
    [][(\/ last'.op = "get" /\ GetEventById(last'.id)
        \/ last'.op = "delete" /\ DeleteEvent(last'.id)
        \/ /\ last'.op = "update"
           /\ UpdateEvent(last'.id, last'.body)
           /\ EventUpdateValid(last'.body, now))
       => /\ ~WellFormed(last'.id)
             => (last'.status = "InvalidIdentifier" /\ events' = events)
          /\ (WellFormed(last'.id) /\ ActiveWithId(last'.id) = {})
             => (last'.status = "NotFound" /\ events' = events)]_vars

C6_Witness ==
    /\ last.op = "update"
    /\ ~WellFormed(last.id)
    /\ last.status = "InvalidIdentifier"
    /\ ActiveDocs # {}

\* C8: an update supplying title and/or date answers Conflict, the store
\* unchanged, exactly when another active event holds the effective
\* (title, date); the updated record itself is no collision.
C8_UpdateConflictExactly ==
    [][(/\ last'.op = "update"
        /\ UpdateEvent(last'.id, last'.body)
        /\ EventUpdateValid(last'.body, now)
        /\ DOMAIN last'.body \cap KeyFields # {}
        /\ ActiveWithId(last'.id) # {})
       => LET body == last'.body
              target == CHOOSE doc \in ActiveWithId(last'.id) : TRUE
              title == IF "title" \in DOMAIN body THEN body.title ELSE target.title
              date == IF "date" \in DOMAIN body THEN body.date ELSE target.date
              collides == \E doc \in ActiveDocs :
                              doc._id # target._id /\ doc.title = title /\ doc.date = date
          IN  /\ last'.status = "Conflict" <=> collides
              /\ last'.status = "Conflict" => events' = events
              /\ ~collides => last'.status = "OK"
              /\ (title = target.title /\ date = target.date) => last'.status = "OK"]_vars

C8_Witness ==
    /\ last.op = "update"
    /\ last.status = "Conflict"
    /\ DOMAIN last.body = {"date"}
    /\ \E d1 \in ActiveWithId(last.id), d2 \in ActiveDocs :
           d1._id # d2._id /\ d1.title = d2.title /\ d2.date = last.body.date

\* C10: after an event is soft-deleted, a create with its (title, date) succeeds
\* when no active event holds the pair: a new active record with a new id is
\* added and every record already stored, the soft-deleted one included, stays.
C10_CreateAfterSoftDelete ==
    [][(/\ last'.op = "create"
        /\ CreateEvent(last'.body)
        /\ EventCreateValid(last'.body, now)
        /\ \E doc \in Docs : doc._id \in deleted /\ SameKey(doc, last'.body)
        /\ ~\E doc \in ActiveDocs : SameKey(doc, last'.body))
       => /\ last'.status = "Created"
          /\ Len(events') = Len(events) + 1
          /\ SubSeq(events', 1, Len(events)) = events
          /\ LET new == events'[Len(events')]
             IN  /\ new.is_active = Some(TRUE)
                 /\ SameKey(new, last'.body)
                 /\ \A doc \in Docs : doc._id # new._id
                 /\ last'.entity = Some([new EXCEPT !._id = Str(new._id)])]_vars

C10_Witness ==
    /\ last.op = "create"
    /\ last.status = "Created"
    /\ \E doc \in Docs :
           /\ doc._id \in deleted
           /\ doc.is_active = Some(FALSE)
           /\ SameKey(doc, last.body)
           /\ \E new \in ActiveDocs : SameKey(new, doc) /\ Some(event_helper(new)) = last.entity

\* C2: the duplicate check and the insert of a create are separate store steps:
\* a create that has passed its check inserts its event whatever was inserted
\* since, so two concurrent creates of one (title, date) can both succeed and
\* leave two active events with that pair.
C2_InsertDoesNotCheckAgain ==
    [][\A p \in Procs :
          (procs[p].pc = "create_insert" /\ procs'[p] # procs[p])
          => /\ Len(events') = Len(events) + 1
             /\ SubSeq(events', 1, Len(events)) = events
             /\ events'[Len(events')].is_active = Some(TRUE)
             /\ SameKey(events'[Len(events')], procs[p].body)
             /\ procs'[p].pc = "create_fetch"]_vars

C2_Witness ==
    /\ \A p \in Procs : procs[p].op = "create" /\ procs[p].status = "Created"
    /\ \E d1 \in ActiveDocs, d2 \in ActiveDocs : d1._id # d2._id /\ SameKey(d1, d2)

\* C9: an update supplying neither title nor date never answers Conflict, and on
\* an active event it goes on to write its fields, also when another active
\* event has the same title and date.
C9_NonKeyUpdateSkipsCheck ==
    [][\A p \in Procs :
          /\ (procs'[p].op = "update" /\ procs'[p].status = "Conflict"
                  /\ procs'[p] # procs[p])
             => DOMAIN procs[p].body \cap KeyFields # {}
          /\ (procs[p].pc \in {"idle", "done"} /\ procs'[p].pc = "update_check")
             => DOMAIN procs'[p].body \cap KeyFields # {}
          /\ (/\ procs[p].pc \in {"idle", "done"}
              /\ procs'[p] # procs[p]
              /\ procs'[p].op = "update"
              /\ procs'[p].pc # "update_write")
             => \A event_id \in ConcIdStrings, update_data \in ConcPartials :
                    (/\ update_data # <<>>
                     /\ DOMAIN update_data \cap KeyFields = {}
                     /\ ActiveWithId(event_id) # {}
                     /\ EventUpdateValid(update_data, now))
                    => ~UpdateFind(p, event_id, update_data)
          /\ (procs[p].pc = "update_write" /\ procs'[p] # procs[p]
                  /\ DOMAIN procs[p].body \cap KeyFields = {})
             => /\ procs'[p].pc = "update_fetch"
                /\ \A i \in 1..Len(events) :
                       events[i]._id = ObjectId(procs[p].id)
                       => \A f \in DOMAIN procs[p].body :
                              events'[i][f] = procs[p].body[f]]_vars

C9_Witness ==
    \E p \in Procs :
        /\ procs[p].pc = "update_fetch"
        /\ \E d1 \in ActiveWithId(procs[p].id), d2 \in ActiveDocs :
               /\ d1._id # d2._id
               /\ SameKey(d1, d2)
               /\ d1.capacity # d2.capacity

\* C11: is_active of a stored record changes only from true to false and only
\* in a successful delete; no create and no update changes it.
C11_OnlyDeleteDeactivates ==
    [][\A i \in 1..Len(events) :
          events'[i].is_active # events[i].is_active
          => /\ last'.op = "delete"
             /\ last'.status = "NoContent"
             /\ events[i].is_active = Some(TRUE)
             /\ events'[i].is_active = Some(FALSE)]_vars

\* C12: after any creates and updates, whatever a partial carries per field,
\* every stored event has a non-empty title, description and location and a
\* capacity greater than 0.
C12_StoredFieldsValid ==
    \A doc \in Docs :
        /\ doc.title # None /\ doc.title # Some("")
        /\ doc.description # None /\ doc.description # Some("")
        /\ doc.location # None /\ doc.location # Some("")
        /\ doc.capacity # None /\ doc.capacity[1] > 0

\* C13: no update and no delete changes the _id or the created_at of a stored
\* record, and no record leaves the store.
C13_IdAndCreatedAtImmutable ==
    [][/\ Len(events') >= Len(events)
       /\ \A i \in 1..Len(events) :
              /\ events'[i]._id = events[i]._id
              /\ events'[i].created_at = events[i].created_at]_vars

C13_Witness ==
    /\ last.op = "update"
    /\ last.status = "OK"
    /\ \E doc \in Docs :
           /\ Str(doc._id) = last.id
           /\ doc.created_at < doc.updated_at
           /\ last.entity[1].created_at = doc.created_at

\* what a list request selects, stated on a stored document
Selected(doc, request) ==
    /\ doc.is_active = Some(TRUE)
    /\ request.date_from # None
       => (doc.date # None /\ doc.date[1] >= request.date_from[1])
    /\ request.date_to # None
       => (doc.date # None /\ doc.date[1] <= request.date_to[1])
    /\ request.tags # None
       => (doc.tags # None /\ \E t \in request.tags[1] : Lower(t) \in doc.tags[1])

\* C14: a list returns at most limit entities and its total is the number of
\* active events the filter selects, whatever page and limit are.
C14_ListBounded ==
    last.op = "list"
    => /\ Len(last.entity[1].events) <= last.body.limit
       /\ last.entity[1].total
              = Cardinality({doc \in Docs : Selected(doc, last.body)})

C14_Witness ==
    /\ last.op = "list"
    /\ last.body.limit = 1
    /\ last.body.date_to = Some(0)
    /\ last.entity[1].total = 2
    /\ Len(last.entity[1].events) = 1
    /\ Len(events) = 2

\* C15: the entities a list returns are the elements at positions
\* (page-1)*limit .. (page-1)*limit + limit - 1 of the selected active events in
\* ascending date, never an inactive event, and with the store unchanged the
\* pages of one filter and limit hold no event twice.
C15_PagesPartition ==
    [][(last'.op = "list" /\ last' # last)
       => LET request == last'.body
              listed == last'.entity[1].events
              selected == {doc \in Docs : Selected(doc, request)}
              skip == (request.page - 1) * request.limit
              ids(result) == {result[i]._id : i \in 1..Len(result)}
          IN  /\ \A i \in 1..Len(listed) :
                     /\ \E doc \in selected : listed[i] = [doc EXCEPT !._id = Str(doc._id)]
                     /\ Cardinality({doc \in selected : doc.date[1] < listed[i].date[1]})
                            <= skip + i - 1
                     /\ Cardinality({doc \in selected : doc.date[1] <= listed[i].date[1]})
                            >= skip + i
              /\ Len(listed) = IF Cardinality(selected) <= skip THEN 0
                               ELSE Min(request.limit, Cardinality(selected) - skip)
              /\ (/\ last.op = "list"
                  /\ last.body.page # request.page
                  /\ last.body = [request EXCEPT !.page = last.body.page])
                 => ids(listed) \cap ids(last.entity[1].events) = {}]_vars

C17_DeleteAtomic ==
    [][\A p \in Procs :
          (procs'[p] # procs[p] /\ procs'[p].op = "delete" /\ WellFormed(procs'[p].id))
          => LET oid == ObjectId(procs'[p].id)
             IN  IF \E doc \in ActiveDocs : doc._id = oid
                 THEN /\ procs'[p].status = "NoContent"
                      /\ oid \notin deleted
                      /\ Len(events') = Len(events)
                      /\ \A i \in 1..Len(events) :
                             events'[i] = IF events[i]._id = oid
                                          THEN [events[i] EXCEPT !.is_active = Some(FALSE),
                                                                 !.updated_at = now]
                                          ELSE events[i]
                      /\ ~\E doc \in {events'[i] : i \in 1..Len(events')} :
                             doc._id = oid /\ doc.is_active = Some(TRUE)
                 ELSE /\ procs'[p].status = "NotFound"
                      /\ events' = events]_vars

C17_Witness ==
    /\ procs["p1"] = DoneDelete(<<"0", "1">>, "NoContent")
    /\ procs["p2"] = DoneDelete(<<"0", "1">>, "NotFound")
    /\ now = 1
    /\ \E doc \in Docs :
           doc._id = 1 /\ doc.is_active = Some(FALSE) /\ doc.updated_at = 0

\* C18: once a record's is_active is false no store write of an update or a
\* delete changes any of its fields, and an update whose write was applied to
\* a soft-deleted record does not return success.
C18_DeletedNeverWritten ==
    [][/\ \A i \in 1..Len(events) :
              events[i].is_active = Some(FALSE) => events'[i] = events[i]
       /\ \A p \in Procs :
              (procs[p].pc = "update_write" /\ procs'[p].pc = "update_fetch")
              => \E doc \in ActiveDocs : doc._id = ObjectId(procs[p].id)]_vars

====
